---- MODULE Spec2Model ----
(***************************************************************************)
(* Persistence and backup subsystem of the network uptime logger           *)
(* (src/main.js): an in-memory SQL.js database with one AUTOINCREMENT      *)
(* table, loaded from network_log.db at startup, saved back by the hourly  *)
(* routine, by clear-logs and by the before-quit handler, and archived to  *)
(* timestamp-named files in network_backups.                               *)
(***************************************************************************)
EXTENDS Integers, Sequences, FiniteSets, Bags, TLC

\* The model follows the program over this many process starts, runs of the
\* hourly routine, successful inserts, save dialogs opened and faults (a write
\* or read that fails, sql.js failing to load, the process killed, a directory
\* removed or not creatable), taken together.
MaxEvents == 5

\* The rows of network_log a page of the database file holds: the renderer
\* sends a status text long enough for that (with the pages of 4096 bytes of
\* sql.js, about 3000 characters for one row in a page, 1500 for two).
LeafCapacity == 1

\* The payload the renderer sends with insert-log (a time and a status text of
\* the length LeafCapacity stands for), and the malformed payload
\* (null/undefined).
Payloads ==
    { [timestamp |-> "2024-01-01T00:00:00Z", status |-> "DOWN"] }

LogEntries ==
    { [present |-> FALSE, timestamp |-> "", status |-> ""] } \cup
    { [present |-> TRUE, timestamp |-> p.timestamp, status |-> p.status] : p \in Payloads }

\* Values of new Date() at a tick of the hourly routine (the wall clock is the
\* system's: it can repeat a value after being set back).
Clock == {"h1", "h2"}

\* How fs.writeFileSync ends when the target directory exists: it writes the
\* buffer ("ok"), fails before touching the file ("eacces"), or fails after
\* truncating it, with none of the buffer written ("truncated") or a part of
\* it. The part written ends before the last page of the buffer ("torn") or
\* inside the last page: in the first bytes of the page ("cut-header": the page
\* header, or the list of the page that heads the free list), in the cell
\* count of the header ("cut-count"), in the cell pointers or the gap behind
\* them ("cut-pointers": in a page of the free list, behind its list), between the cells of two rows, the at-th
\* row of the page being the last one not written ("cut-between"), or inside
\* the cell of the at-th row of the page: behind its rowid ("cut-cell"), in
\* the column types of its record ("cut-types", "cut-record"), in its
\* timestamp ("cut-timestamp") or in its status ("cut-column").
WriteOutcomes ==
    { [how |-> h, at |-> 1] :
        h \in {"ok", "eacces", "truncated", "torn", "cut-header", "cut-count",
               "cut-pointers"} } \cup
    { [how |-> h, at |-> i] :
        h \in {"cut-cell", "cut-types", "cut-record", "cut-timestamp", "cut-column"},
        i \in 1..LeafCapacity } \cup
    { [how |-> "cut-between", at |-> i] : i \in 1..(LeafCapacity - 1) }

OkWrite == [how |-> "ok", at |-> 1]

\* How the write of the CSV file ends when the directory of the chosen path
\* exists: complete, failing before the file is touched, or failing after
\* truncating it, with none of the text written or a part of it ("torn").
CsvWriteOutcomes ==
    { [how |-> h, at |-> 1] : h \in {"ok", "eacces", "truncated", "torn"} }

\* The path chosen in the save dialog: the persistent file, an archive file,
\* or any other file.
CsvTargets == {"elsewhere", "dbPath"} \cup Clock

\* How fs.readFileSync ends when the file exists.
ReadOutcomes == {"ok", "eio"}

--------------------------------------------------------------------------
(* Values *)

SetMax(S) == IF S = {} THEN 0 ELSE CHOOSE x \in S : \A y \in S : y <= x

\* let db;  (undefined until initializeDatabase assigns it)
NoDb ==
    [state |-> "none", rows |-> {}, seq |-> 0, size |-> 0, leaves |-> << >>, free |-> << >>,
     trunk |-> "ok"]

\* new sql.Database(): a database without tables, of no page
NewDb ==
    [state |-> "ok", rows |-> {}, seq |-> 0, size |-> 0, leaves |-> << >>, free |-> << >>,
     trunk |-> "ok"]

\* The empty store: the schema page, the root page of network_log and the
\* root page of sqlite_sequence.
EmptyDb ==
    [state |-> "ok", rows |-> {}, seq |-> 0, size |-> 3, leaves |-> << >>, free |-> << >>,
     trunk |-> "ok"]

\* new sql.Database(bytes) on bytes that are not a database image: the handle
\* exists (db is truthy) and every statement on it throws.
NotADb ==
    [state |-> "notadb", rows |-> {}, seq |-> 0, size |-> 0, leaves |-> << >>, free |-> << >>,
     trunk |-> "ok"]

AbsentFile == [kind |-> "absent", pages |-> << >>]

\* Bytes that are no database image: an image cut before its last page, or
\* the text of a CSV export, whole or in part.
GarbageFile == [kind |-> "garbage", pages |-> << >>]

\* A file of length 0: SQLite opens it as a database without tables.
ZeroLengthFile == [kind |-> "image", pages |-> << >>]

\* The seq of an image whose page of sqlite_sequence has lost its header: the
\* table can be read and emptied, and every INSERT throws.
SeqUnreadable == 0 - 1

\* The result of SELECT MAX(id) on an empty table.
SqlNull == 0 - 1

\* SELECT MAX(id) throwing.
SqlError == 0 - 2

\* A column read from bytes the write did not reach.
NullColumn == "<null>"

\* A text column whose last bytes the write did not reach.
CutColumn == "<cut>"

--------------------------------------------------------------------------
(* The SQL statements of main.js on the table
     network_log(id INTEGER PRIMARY KEY AUTOINCREMENT, timestamp, status).
   A row is a cell of the table's b-tree: key is its place in the tree, id,
   timestamp and status what a statement reads from it, d whether it can be
   read ("ok"), its columns cannot ("record": the column types of its record
   are incomplete), its page takes no insert ("count": the cell count of the
   page header is missing), or nothing of it can be read ("page": the header
   of its page is missing). Inserts make cells with id = key and d = "ok"; the
   other cells come from a file that a failed write has cut.
   seq is the table's row of sqlite_sequence: the largest id ever handed out
   (0: no row). size is the number of pages of the database file, leaves the
   pages that hold the table's rows when its root page does not (in the order
   of the keys), free the pages clear-logs has freed (the trunk page of the
   free list, then the pages it lists), trunk whether the list of the trunk
   page can be read ("ok") or not ("cut": the file ends inside the list). *)

Ids(rows) == { r.id : r \in rows }

Keys(rows) == { r.key : r \in rows }

\* The entry a statement reads from a cell.
Entry(c) == [id |-> c.id, timestamp |-> c.timestamp, status |-> c.status]

Entries(rows) == { Entry(c) : c \in rows }

\* The cell last in the tree.
Rightmost(rows) == CHOOSE r \in rows : \A q \in rows : q.key <= r.key

\* The pages a table of n rows needs besides its root page.
LeafCountOf(n) ==
    IF n <= LeafCapacity THEN 0 ELSE (n + LeafCapacity - 1) \div LeafCapacity

\* The pages the table needs besides its root page: none while the rows fit
\* into the root page.
LeafCount(rows) == LeafCountOf(Cardinality(rows))

\* CREATE TABLE IF NOT EXISTS network_log (...)
CreateTable(d) == IF d.state = "ok" /\ d.size = 0 THEN EmptyDb ELSE d

\* Whether INSERT INTO network_log throws: it reads sqlite_sequence and the
\* last cell of the table, and the free list when the table needs a page.
InsertThrows(d) ==
    \/ d.state # "ok"
    \/ d.seq = SeqUnreadable
    \/ (d.rows # {} /\ Rightmost(d.rows).d \in {"page", "count"})
    \/ (d.trunk = "cut" /\ LeafCountOf(Cardinality(d.rows) + 1) > Len(d.leaves))

\* Whether a SELECT of every row throws.
ScanThrows(d) ==
    \/ d.state # "ok"
    \/ \E c \in d.rows : c.d \in {"record", "page"}

\* Mutation: the id of a plain INTEGER PRIMARY KEY, one more than the largest
\* id now in the table.
NextRowIdOfPlainKey(d) ==
    (IF d.rows = {} THEN 0 ELSE Rightmost(d.rows).id) + 1

\* AUTOINCREMENT: one more than the larger of the sequence and the id of the
\* last cell of the table.
NextRowId(d) ==
    LET last == IF d.rows = {} THEN 0 ELSE Rightmost(d.rows).id
    IN  (IF d.seq >= last THEN d.seq ELSE last) + 1

\* s without its i-th element, the last element moved into its place.
TakeAt(s, i) == [j \in 1..(Len(s) - 1) |-> IF j = i THEN s[Len(s)] ELSE s[j]]

\* The table takes a page for a new leaf: a page of the free list (of those
\* the trunk lists, the one nearest to the root page when the root is split,
\* else the first; the trunk itself when it lists none), or a new page at the
\* end of the file.
AllocateBtreePage(d, nearRoot) ==
    IF Len(d.free) = 0
    THEN [d EXCEPT !.size = @ + 1, !.leaves = Append(@, d.size + 1)]
    ELSE IF Len(d.free) = 1
    THEN [d EXCEPT !.free = << >>, !.leaves = Append(@, d.free[1])]
    ELSE LET listed == Tail(d.free)
             i == IF nearRoot
                  THEN CHOOSE k \in 1..Len(listed) : \A j \in 1..Len(listed) : listed[k] <= listed[j]
                  ELSE 1
         IN  [d EXCEPT !.free = <<Head(d.free)>> \o TakeAt(listed, i),
                       !.leaves = Append(@, listed[i])]

\* INSERT INTO network_log (timestamp, status) VALUES (?, ?)
\* (a root page that overflows moves its rows to a new leaf, and the new row
\* goes to a second one; a last leaf that overflows is followed by a new one)
SqlInsert(d, timestamp, status) ==
    LET cell == [key |-> NextRowId(d), id |-> NextRowId(d), timestamp |-> timestamp,
                 status |-> status, d |-> "ok"]
        more == [d EXCEPT !.rows = @ \cup {cell}, !.seq = NextRowId(d)]
        need == LeafCount(more.rows) - Len(d.leaves)
    IN  IF need <= 0 THEN more
        ELSE IF need = 1 THEN AllocateBtreePage(more, FALSE)
        ELSE AllocateBtreePage(AllocateBtreePage(more, TRUE), FALSE)

\* DELETE FROM network_log;   (sqlite_sequence keeps its row; the leaves of
\* the table go to the free list and stay in the file)
SqlDeleteAll(d) ==
    [d EXCEPT !.rows = {}, !.free = @ \o d.leaves, !.leaves = << >>]

\* SELECT MAX(id) AS max_id FROM network_log: the id of the last cell.
SelectMaxId(d) ==
    IF d.state # "ok" THEN SqlError
    ELSE IF d.rows = {} THEN SqlNull
    ELSE IF Rightmost(d.rows).d = "page" THEN SqlError
    ELSE Rightmost(d.rows).id

\* Mutation: the rows in the order of their insertion.
OrderByRowid(rows) ==
    LET RECURSIVE Asc(_)
        Asc(rs) == IF rs = {} THEN << >>
                   ELSE LET low == CHOOSE r \in rs : \A q \in rs : r.key <= q.key
                        IN  <<low>> \o Asc(rs \ {low})
    IN  Asc(rows)

RECURSIVE OrderByIdDesc(_)
\* SELECT id, timestamp, status FROM network_log ORDER BY id DESC;
\* (the table is walked backwards, no sort is made)
OrderByIdDesc(rows) ==
    IF rows = {} THEN << >>
    ELSE LET top == CHOOSE r \in rows : \A q \in rows : q.key <= r.key
         IN  <<top>> \o OrderByIdDesc(rows \ {top})

RECURSIVE OrderByIdAsc(_)
\* SELECT id, timestamp, status FROM network_log ORDER BY id ASC;
OrderByIdAsc(rows) ==
    IF rows = {} THEN << >>
    ELSE LET low == CHOOSE r \in rows : \A q \in rows : r.key <= q.key
         IN  <<low>> \o OrderByIdAsc(rows \ {low})

--------------------------------------------------------------------------
(* The snapshot codec: db.export() and new sql.Database(filebuffer). The
   image is a sequence of pages: the schema page with the number of pages and
   the free list, the root page of network_log, the root page of
   sqlite_sequence, then the leaf pages of network_log and the free pages
   (t = "cut": the page that heads the free list, its list cut). *)

Page(t, cells, n, kids) == [t |-> t, cells |-> cells, n |-> n, kids |-> kids]

\* The rows of the i-th leaf of the table.
LeafCells(rows, i) ==
    LET asc  == OrderByIdAsc(rows)
        from == (i - 1) * LeafCapacity + 1
        to   == IF i * LeafCapacity <= Len(asc) THEN i * LeafCapacity ELSE Len(asc)
    IN  { asc[j] : j \in from..to }

\* The image of a store whose sqlite_sequence holds seq.
Image(d, seq) ==
    [kind |-> "image",
     pages |-> [i \in 1..d.size |->
         IF i = 1 THEN Page("schema", {}, d.size, d.free)
         ELSE IF i = 2
         THEN IF Len(d.leaves) = 0 THEN Page("leaf", d.rows, 0, << >>)
              ELSE Page("interior", {}, 0, d.leaves)
         ELSE IF i = 3 THEN Page("sequence", {}, seq, << >>)
         ELSE IF \E j \in 1..Len(d.leaves) : d.leaves[j] = i
         THEN Page("leaf",
                   LeafCells(d.rows, CHOOSE j \in 1..Len(d.leaves) : d.leaves[j] = i),
                   0, << >>)
         ELSE IF d.trunk = "cut" /\ Len(d.free) > 0 /\ d.free[1] = i
         THEN Page("cut", {}, 0, << >>)
         ELSE Page("free", {}, 0, << >>)]]

\* Mutation: an image that leaves out the content of sqlite_sequence.
ExportWithoutSequence(d) ==
    IF d.state = "notadb" THEN GarbageFile ELSE Image(d, 0)

\* db.export(): the bytes of the database file, every table in it.
Export(d) ==
    IF d.state = "notadb" THEN GarbageFile ELSE Image(d, d.seq)

\* new sql.Database(filebuffer), as the statements then see it.
Open(f) ==
    IF f.kind = "garbage" THEN NotADb
    ELSE IF Len(f.pages) = 0 THEN NewDb
    ELSE IF Len(f.pages) < 3 \/ f.pages[1].n # Len(f.pages) THEN NotADb
    ELSE [state  |-> "ok",
          rows   |-> IF f.pages[2].t = "leaf" THEN f.pages[2].cells
                     ELSE UNION { f.pages[f.pages[2].kids[j]].cells :
                                    j \in 1..Len(f.pages[2].kids) },
          seq    |-> f.pages[3].n,
          size   |-> Len(f.pages),
          leaves |-> f.pages[2].kids,
          free   |-> f.pages[1].kids,
          trunk  |-> IF \E i \in 1..Len(f.pages) : f.pages[i].t = "cut"
                     THEN "cut" ELSE "ok"]

\* The entries a load of the file finds in the table.
Stored(f) == Open(f).rows

\* How far the bytes of a cell reach: not to the header of its page (0), not
\* to the cell count of the header (1), not to the cell (2), behind its rowid
\* (3), behind the type of its timestamp (4), into the type of its status (5),
\* into its timestamp (6), into its status (7), to its end (8).
Reach(c) ==
    IF c.d = "page" THEN 0
    ELSE IF c.d = "count" THEN 1
    ELSE IF c.d = "record" THEN 5
    ELSE IF c.timestamp = NullColumn THEN (IF c.id = 0 THEN 2 ELSE 3)
    ELSE IF c.timestamp = CutColumn THEN (IF c.status = NullColumn THEN 4 ELSE 6)
    ELSE IF c.status = CutColumn THEN 7
    ELSE 8

\* The cell c with its bytes behind k read as zeros.
CutTo(c, k) ==
    LET zero == [key |-> c.key, id |-> 0, timestamp |-> NullColumn,
                 status |-> NullColumn, d |-> "ok"]
    IN  IF k >= Reach(c) THEN c
        ELSE IF k = 0 THEN [c EXCEPT !.d = "page"]
        ELSE IF k = 1 THEN [zero EXCEPT !.d = "count"]
        ELSE IF k = 2 THEN zero
        ELSE IF k = 3 THEN [zero EXCEPT !.id = c.id]
        ELSE IF k = 4 THEN [zero EXCEPT !.id = c.id, !.timestamp = CutColumn]
        ELSE IF k = 5 THEN [c EXCEPT !.d = "record"]
        ELSE IF k = 6 THEN [c EXCEPT !.timestamp = CutColumn, !.status = CutColumn]
        ELSE [c EXCEPT !.status = CutColumn]

\* What is left of an image when the write ends inside its last page: the
\* bytes behind the end read as zeros, as do those that were zeros in the
\* image. (The cells of a page are stored from its end backwards, the first
\* row of the page last.) A write that ends inside the list of the page that
\* heads the free list leaves the pages it lists out of reach.
CutImage(f, w) ==
    LET n    == Len(f.pages)
        last == f.pages[n]
        asc  == OrderByIdAsc(last.cells)
        kids == f.pages[1].kids
        End(i) ==
            IF w.how = "cut-header" THEN 0
            ELSE IF w.how = "cut-count" THEN 1
            ELSE IF w.how = "cut-pointers" THEN 2
            ELSE IF w.how = "cut-between" THEN (IF i <= w.at THEN 2 ELSE 8)
            ELSE IF i < w.at THEN 2
            ELSE IF i > w.at THEN 8
            ELSE IF w.how = "cut-cell" THEN 3
            ELSE IF w.how = "cut-types" THEN 4
            ELSE IF w.how = "cut-record" THEN 5
            ELSE IF w.how = "cut-timestamp" THEN 6
            ELSE 7
    IN  IF last.t = "sequence"
        THEN [f EXCEPT !.pages[n].n =
                 IF w.how \in {"cut-header", "cut-count"} \/ last.n = SeqUnreadable
                 THEN SeqUnreadable ELSE 0]
        ELSE IF last.t = "leaf"
        THEN [f EXCEPT !.pages[n].cells = { CutTo(asc[i], End(i)) : i \in 1..Len(asc) }]
        ELSE IF w.how = "cut-header" /\ Len(kids) > 1 /\ kids[1] = n
        THEN [f EXCEPT !.pages[n].t = "cut"]
        ELSE f

\* The ways a write of the image of d can end: a write can end inside a row
\* only where the last page of the image holds that row, in a cell count or
\* between rows only where it holds rows, and in cell pointers only where it
\* is not a free page (in a free page: behind the list, where it has one).
WriteEnds(d) ==
    LET data == Export(d)
        last == IF data.kind = "image" /\ Len(data.pages) > 0
                THEN data.pages[Len(data.pages)]
                ELSE Page("free", {}, 0, << >>)
        rows == IF last.t = "leaf" THEN Cardinality(last.cells) ELSE 0
    IN  { w \in WriteOutcomes :
            \/ w.how \in {"ok", "eacces", "truncated", "torn", "cut-header"}
            \/ w.how = "cut-pointers" /\
                  \/ last.t \in {"leaf", "sequence"}
                  \/ (Len(d.free) > 1 /\ d.free[1] = d.size)
            \/ w.how = "cut-count" /\ rows >= 1
            \/ w.how = "cut-between" /\ rows > w.at
            \/ w.how \in {"cut-cell", "cut-types", "cut-record", "cut-timestamp",
                           "cut-column"} /\ rows >= w.at }

--------------------------------------------------------------------------
(* State *)

VARIABLES
    phase,      \* the process: "down", "starting" (whenReady's callback awaits
                \* initializeDatabase), "ready", "aborting" (app.quit() called by
                \* the callback's catch), "quitting" (before-quit handled)
    db,         \* let db
    lastLogId,  \* let lastLogId
    timer,      \* setInterval(autoHourlyBackup, ...) is scheduled and the window exists
    file,       \* content of dbPath (network_log.db)
    archives,   \* content of each file of backupDir, by the time in its name
    dirs,       \* "none", "userData" (userData without network_backups), "both"
    out,        \* what the last handler returned, logged and sent
    dialogs,    \* the calls of export-log-csv awaiting their save dialog: a bag
                \* of the rows each holds
    issued,     \* history: every id an insert has assigned, kept for as long as
                \* the run is undisturbed (see disturbed)
    known,      \* history: the ids assigned in the past the in-memory store descends from
    fileKnown,  \* history: the same, for the store the persistent file was written from
    launches,   \* history: how often the application was started
    ticks,      \* history: how often the hourly routine ran
    inserts,    \* history: how many inserts succeeded
    exports,    \* history: how many save dialogs export-log-csv opened
    faults,     \* history: how many faults happened
    tickFailed, \* history: a run of the hourly routine was rejected in this process
    disturbed   \* history: the process was killed, a directory was removed from
                \* outside, or a load could not read the file that was there

vars == <<phase, db, lastLogId, timer, file, archives, dirs, out, dialogs, issued, known, fileKnown,
          launches, ticks, inserts, exports, faults, tickFailed, disturbed>>

\* The starts, runs of the routine, successful inserts, save dialogs opened and
\* faults so far.
Events == launches + ticks + inserts + exports + faults

Blank(op) ==
    [op |-> op, status |-> "", rows |-> << >>, logs |-> {}, sent |-> FALSE,
     arch |-> "", archive |-> "", id |-> 0]

Init ==
    /\ phase = "down"
    /\ db = NoDb
    /\ lastLogId = 0
    /\ timer = FALSE
    /\ file = AbsentFile
    /\ archives = [c \in Clock |-> AbsentFile]
    /\ dirs = "none"
    /\ out = Blank("none")
    /\ dialogs = EmptyBag
    /\ issued = {}
    /\ known = {}
    /\ fileKnown = {}
    /\ launches = 0
    /\ ticks = 0
    /\ inserts = 0
    /\ exports = 0
    /\ faults = 0
    /\ tickFailed = FALSE
    /\ disturbed = FALSE

--------------------------------------------------------------------------
(* performBackup(filePath): what becomes of the target file, and how the call
   ends: "saved", "swallowed" (ENOENT, ignored without a message) or "threw".
   cur is the target's content, dirOk whether its directory exists, w how
   writeFileSync ends when it does. *)

PerformBackup(d, cur, dirOk, w) ==
    IF d.state = "none" THEN [content |-> cur, result |-> "threw"]
    ELSE IF ~dirOk THEN [content |-> cur, result |-> "swallowed"]
    ELSE IF w.how = "eacces" THEN [content |-> cur, result |-> "threw"]
    ELSE IF w.how = "truncated" THEN [content |-> ZeroLengthFile, result |-> "threw"]
    ELSE LET data == Export(d)
         IN  IF w.how = "ok" THEN [content |-> data, result |-> "saved"]
             ELSE IF w.how = "torn" \/ data.kind # "image"
             THEN [content |-> GarbageFile, result |-> "threw"]
             ELSE [content |-> CutImage(data, w), result |-> "threw"]

\* The history that goes with the persistent file after performBackup(dbPath):
\* that of the store when the file holds its sequence, that of the file as it
\* was when the write did not touch it, and none when a failed write left the
\* file empty, undecodable or without the sequence.
KnownAfter(p, d, w) ==
    IF p.result = "saved" THEN known
    ELSE IF p.result = "swallowed" \/ w.how = "eacces" THEN fileKnown
    ELSE IF d.seq > 0 /\ p.content.kind = "image" /\ Len(p.content.pages) >= 3
                      /\ p.content.pages[3].n = d.seq
    THEN known
    ELSE {}

--------------------------------------------------------------------------
(* initializeDatabase() from step 2 on, as a function of the persistent file
   and of how readFileSync ends: the handle, the counter, whether step 3 threw
   and whether the query of step 4 did. *)

\* Mutation: the catch of step 2 rethrows, so a missing file aborts the startup.
LoadDatabaseOrThrow(f, r) ==
    IF f.kind # "absent" /\ r = "ok" /\ Open(f).state = "ok"
    THEN [db |-> CreateTable(Open(f)),
          lastLogId |-> IF SelectMaxId(CreateTable(Open(f))) \in {SqlNull, SqlError} THEN 0
                        ELSE SelectMaxId(CreateTable(Open(f))),
          threw |-> FALSE,
          maxThrew |-> SelectMaxId(CreateTable(Open(f))) = SqlError]
    ELSE [db |-> NoDb, lastLogId |-> 0, threw |-> TRUE, maxThrew |-> FALSE]

LoadDatabase(f, r) ==
    LET opened == IF f.kind # "absent" /\ r = "ok" THEN Open(f) ELSE NewDb
        maxId  == SelectMaxId(CreateTable(opened))
    IN  IF opened.state = "notadb"
        THEN [db |-> opened, lastLogId |-> 0, threw |-> TRUE, maxThrew |-> FALSE]
        ELSE [db |-> CreateTable(opened),
              lastLogId |-> IF maxId \in {SqlNull, SqlError} THEN 0 ELSE maxId,
              threw |-> FALSE,
              maxThrew |-> maxId = SqlError]

\* Mutation: a timer re-armed at the end of the callback, which a rejected run
\* does not reach.
TimerRearmedAtEnd(rejected) == ~rejected

\* setInterval: the callback stays scheduled whatever a run of it did.
TimerAfterTick(rejected) == TRUE

--------------------------------------------------------------------------
(* The process *)

\* The application is started: main.js is loaded, whenReady's callback begins.
Launch ==
    /\ phase = "down"
    /\ Events < MaxEvents
    /\ launches' = launches + 1
    /\ phase' = "starting"
    /\ out' = Blank("launch")
    /\ UNCHANGED <<faults, exports, dialogs, db, lastLogId, timer, file, archives, dirs,
                 issued, known, fileKnown, ticks, inserts, tickFailed, disturbed>>

\* app.whenReady().then(...): initializeDatabase, createWindow, setInterval;
\* on a throw, console.error and app.quit(). sqlOk: initSqlJs resolves; mkdirOk:
\* mkdirSync of the backup directory, where it is missing, succeeds; r: how
\* readFileSync ends.
Initialize(sqlOk, mkdirOk, r) ==
    /\ phase = "starting"
    /\ LET fault == \/ ~sqlOk
                    \/ (dirs # "both" /\ ~mkdirOk)
                    \/ (file.kind # "absent" /\ r = "eio")
       IN  /\ fault => Events < MaxEvents
           /\ faults' = IF fault THEN faults + 1 ELSE faults
    /\ IF ~sqlOk
       THEN /\ phase' = "aborting"
            /\ out' = [Blank("initialize") EXCEPT !.status = "sql.js failed",
                          !.logs = {"Failed to initialize sql.js", "Critical error"}]
            /\ UNCHANGED <<db, lastLogId, timer, dirs, known, issued, disturbed>>
       ELSE IF dirs # "both" /\ ~mkdirOk
       THEN /\ phase' = "aborting"
            /\ out' = [Blank("initialize") EXCEPT !.status = "mkdir failed",
                          !.logs = {"Critical error"}]
            /\ UNCHANGED <<db, lastLogId, timer, dirs, known, issued, disturbed>>
       ELSE LET ld == LoadDatabase(file, r)
                how == IF file.kind = "absent" THEN "ENOENT" ELSE r
            IN  /\ dirs' = "both"
                /\ db' = ld.db
                /\ lastLogId' = ld.lastLogId
                /\ known' = IF how = "ok" /\ file.kind = "image" THEN fileKnown ELSE {}
                /\ phase' = IF ld.threw THEN "aborting" ELSE "ready"
                /\ timer' = ~ld.threw
                /\ disturbed' = (disturbed \/ how = "eio")
                /\ issued' = IF how = "eio" THEN {} ELSE issued
                /\ out' = [Blank("initialize") EXCEPT
                              !.status = how,
                              !.logs = IF ld.threw
                                       THEN {"Loaded persistent database", "Critical error"}
                                       ELSE (IF how = "ok"
                                             THEN {"Loaded persistent database"}
                                             ELSE {"Created new in-memory SQL.js database."})
                                            \cup
                                            (IF ld.maxThrew
                                             THEN {"Failed to get MAX(id), resetting counter to 0"}
                                             ELSE {})]
    /\ UNCHANGED <<exports, dialogs, file, archives, fileKnown,
                 launches, ticks, inserts, tickFailed>>

\* Mutation: before-quit without its test of db.
BeforeQuitWithoutGuard(w) ==
    /\ phase \in {"starting", "ready", "aborting"}
    /\ phase' = "quitting"
    /\ LET p == PerformBackup(db, file, dirs # "none", w)
       IN  /\ file' = p.content
           /\ fileKnown' = KnownAfter(p, db, w)
           /\ out' = [Blank("before-quit") EXCEPT
                         !.status = p.result,
                         !.logs = IF p.result = "threw"
                                  THEN {"Final persistence save failed"}
                                  ELSE {"Final save to persistent file complete before quit."}]
    /\ UNCHANGED <<faults, exports, dialogs, db, lastLogId, timer, archives, dirs, issued,
                 known, launches, ticks, inserts, tickFailed, disturbed>>

\* app.on('before-quit')
BeforeQuit(w) ==
    /\ phase \in {"starting", "ready", "aborting"}
    /\ phase' = "quitting"
    /\ IF db.state = "none"
       THEN /\ out' = [Blank("before-quit") EXCEPT !.status = "skipped"]
            /\ UNCHANGED <<file, fileKnown, faults>>
       ELSE LET p == PerformBackup(db, file, dirs # "none", w)
            IN  /\ p.result = "threw" => Events < MaxEvents
                /\ faults' = IF p.result = "threw" THEN faults + 1 ELSE faults
                /\ file' = p.content
                /\ fileKnown' = KnownAfter(p, db, w)
                /\ out' = [Blank("before-quit") EXCEPT
                              !.status = p.result,
                              !.logs = IF p.result = "threw"
                                       THEN {"Final persistence save failed"}
                                       ELSE {"Final save to persistent file complete before quit."}]
    /\ UNCHANGED <<exports, dialogs, db, lastLogId, timer, archives, dirs, issued,
                 known, launches, ticks, inserts, tickFailed, disturbed>>

\* The process ends after before-quit.
Exit ==
    /\ phase = "quitting"
    /\ phase' = "down"
    /\ db' = NoDb
    /\ lastLogId' = 0
    /\ timer' = FALSE
    /\ known' = {}
    /\ tickFailed' = FALSE
    /\ out' = Blank("exit")
    /\ dialogs' = EmptyBag
    /\ UNCHANGED <<faults, exports, file, archives, dirs, issued,
                 fileKnown, launches, ticks, inserts, disturbed>>

\* The process is killed (or the machine stops): no handler runs.
Crash ==
    /\ phase \in {"starting", "ready", "aborting"}
    /\ phase' = "down"
    /\ db' = NoDb
    /\ lastLogId' = 0
    /\ timer' = FALSE
    /\ known' = {}
    /\ tickFailed' = FALSE
    /\ out' = Blank("crash")
    /\ dialogs' = EmptyBag
    /\ disturbed' = TRUE
    /\ Events < MaxEvents
    /\ faults' = faults + 1
    /\ issued' = {}
    /\ UNCHANGED <<exports, file, archives, dirs, fileKnown, launches, ticks, inserts>>

--------------------------------------------------------------------------
(* The hourly routine *)

\* Mutation: the routine with its two steps exchanged, the archive written
\* before the persistent file.
TickArchiveFirst(now, w1, w2, hasWindow) ==
    /\ timer
    /\ phase \in {"ready", "quitting"}
    /\ Events < MaxEvents
    /\ ticks' = ticks + 1
    /\ db.state # "none"
    /\ LET p2 == PerformBackup(db, archives[now], dirs = "both", w2)
           p1 == PerformBackup(db, file, dirs # "none", w1)
       IN  /\ archives' = [archives EXCEPT ![now] = p2.content]
           /\ file' = IF p2.result = "threw" THEN file ELSE p1.content
           /\ fileKnown' = IF p2.result = "threw" THEN fileKnown ELSE KnownAfter(p1, db, w1)
           /\ timer' = TRUE
           /\ tickFailed' = (tickFailed \/ p1.result = "threw")
           /\ out' = [Blank("tick") EXCEPT
                         !.status = IF p1.result = "threw" THEN "rejected" ELSE p1.result,
                         !.arch = now,
                         !.archive = p2.result]
    /\ UNCHANGED <<faults, exports, dialogs, phase, db, lastLogId, dirs, issued, known, launches, inserts, disturbed>>

\* autoHourlyBackup(), run by the interval timer. now is new Date(), w1 and w2
\* how the two writes end, hasWindow whether getAllWindows()[0] exists.
Tick(now, w1, w2, hasWindow) ==
    /\ timer
    /\ phase \in {"ready", "quitting"}
    /\ Events < MaxEvents
    /\ ticks' = ticks + 1
    /\ IF db.state = "none"
       THEN /\ out' = [Blank("tick") EXCEPT !.status = "skipped"]
            /\ timer' = timer
            /\ UNCHANGED <<file, archives, fileKnown, tickFailed, faults>>
       ELSE LET p1 == PerformBackup(db, file, dirs # "none", w1)
                p2 == PerformBackup(db, archives[now], dirs = "both", w2)
                fault == "threw" \in {p1.result, p2.result}
            IN  /\ fault => Events + 1 < MaxEvents
                /\ faults' = IF fault THEN faults + 1 ELSE faults
                /\ file' = p1.content
                /\ fileKnown' = KnownAfter(p1, db, w1)
                /\ timer' = TimerAfterTick(p1.result = "threw")
                /\ tickFailed' = (tickFailed \/ p1.result = "threw")
                /\ IF p1.result = "threw"
                   THEN /\ out' = [Blank("tick") EXCEPT
                                      !.status = "rejected",
                                      !.logs = {"unhandled rejection: Backup/Export failed"}]
                        /\ UNCHANGED archives
                   ELSE /\ archives' = [archives EXCEPT ![now] = p2.content]
                        /\ out' = [Blank("tick") EXCEPT
                                      !.status = p1.result,
                                      !.arch = now,
                                      !.archive = p2.result,
                                      !.sent = (p2.result # "threw" /\ hasWindow),
                                      !.logs = IF p2.result = "threw"
                                               THEN {"Auto Backup failed"}
                                               ELSE {"Archival backup created successfully"}]
    /\ UNCHANGED <<exports, dialogs, phase, db, lastLogId, dirs, issued, known, launches, inserts, disturbed>>

--------------------------------------------------------------------------
(* IPC handlers: the renderer invokes them from createWindow on; the handlers
   stay registered, and the windows open, after before-quit has run. *)

WindowOpen == timer /\ phase \in {"ready", "quitting"}

\* ipcMain.handle('load-logs'): each row of the result as an object keyed by
\* the column names; an empty list when the query throws.
LoadLogsReply(d) ==
    IF d.state # "ok" \/ ScanThrows(d) THEN << >>
    ELSE [i \in 1..Len(OrderByIdDesc(d.rows)) |-> Entry(OrderByIdDesc(d.rows)[i])]

LoadLogs ==
    /\ WindowOpen
    /\ out' = [Blank("load-logs") EXCEPT
                  !.rows = LoadLogsReply(db),
                  !.logs = IF db.state # "none" /\ ScanThrows(db)
                           THEN {"Error reading logs from SQL database"} ELSE {}]
    /\ UNCHANGED <<faults, exports, dialogs, phase, db, lastLogId, timer, file, archives, dirs,
                 issued, known, fileKnown, launches, ticks, inserts, tickFailed, disturbed>>

\* Mutation: insert-log that saves the persistent file after the insert.
InsertLogWithSave(logEntry) ==
    /\ WindowOpen
    /\ ~InsertThrows(db) /\ logEntry.present
    /\ Events < MaxEvents
    /\ inserts' = inserts + 1
    /\ db' = SqlInsert(db, logEntry.timestamp, logEntry.status)
    /\ lastLogId' = SelectMaxId(db')
    /\ issued' = IF disturbed THEN {} ELSE issued \cup {NextRowId(db)}
    /\ known' = known \cup {NextRowId(db)}
    /\ file' = PerformBackup(db', file, dirs # "none", OkWrite).content
    /\ fileKnown' = known'
    /\ out' = [Blank("insert-log") EXCEPT !.status = "success", !.id = NextRowId(db)]
    /\ UNCHANGED <<faults, exports, dialogs, phase, timer, archives, dirs, launches, ticks, tickFailed, disturbed>>

\* Mutation: insert-log as an id counter would do it, the new entry taking
\* lastLogId + 1.
InsertLogWithCounterId(logEntry) ==
    /\ WindowOpen
    /\ ~InsertThrows(db) /\ logEntry.present
    /\ Events < MaxEvents
    /\ inserts' = inserts + 1
    /\ db' = [SqlInsert(db, logEntry.timestamp, logEntry.status) EXCEPT
                 !.rows = db.rows \cup { [key |-> lastLogId + 1, id |-> lastLogId + 1,
                                          timestamp |-> logEntry.timestamp,
                                          status |-> logEntry.status, d |-> "ok"] },
                 !.seq = IF db.seq > lastLogId + 1 THEN db.seq ELSE lastLogId + 1]
    /\ lastLogId' = lastLogId + 1
    /\ issued' = IF disturbed THEN {} ELSE issued \cup {lastLogId + 1}
    /\ known' = known \cup {lastLogId + 1}
    /\ out' = [Blank("insert-log") EXCEPT !.status = "success", !.id = lastLogId + 1]
    /\ UNCHANGED <<faults, exports, dialogs, phase, timer, file, archives, dirs,
                 fileKnown, launches, ticks, tickFailed, disturbed>>

\* ipcMain.handle('insert-log')
InsertLog(logEntry) ==
    /\ WindowOpen
    /\ IF db.state = "none"
       THEN /\ out' = [Blank("insert-log") EXCEPT !.status = "Database not ready."]
            /\ UNCHANGED <<db, lastLogId, issued, known, inserts>>
       ELSE IF ~logEntry.present \/ InsertThrows(db)
       THEN /\ out' = [Blank("insert-log") EXCEPT !.status = "error",
                          !.logs = {"SQL.js insert failed"}]
            /\ UNCHANGED <<db, lastLogId, issued, known, inserts>>
       ELSE /\ Events < MaxEvents
            /\ inserts' = inserts + 1
            /\ db' = SqlInsert(db, logEntry.timestamp, logEntry.status)
            /\ lastLogId' = SelectMaxId(db')
            /\ issued' = IF disturbed THEN {} ELSE issued \cup {NextRowId(db)}
            /\ known' = known \cup {NextRowId(db)}
            /\ out' = [Blank("insert-log") EXCEPT !.status = "success",
                          !.id = NextRowId(db)]
    /\ UNCHANGED <<faults, exports, dialogs, phase, timer, file, archives, dirs,
                 fileKnown, launches, ticks, tickFailed, disturbed>>

\* ipcMain.handle('clear-logs')
ClearLogs(w) ==
    /\ WindowOpen
    /\ IF db.state = "none"
       THEN /\ out' = [Blank("clear-logs") EXCEPT !.status = "Database not ready."]
            /\ UNCHANGED <<db, lastLogId, file, fileKnown, faults>>
       ELSE IF db.state = "notadb"
       THEN /\ out' = [Blank("clear-logs") EXCEPT !.status = "error",
                          !.logs = {"Error clearing SQL database"}]
            /\ UNCHANGED <<db, lastLogId, file, fileKnown, faults>>
       ELSE LET cleared == SqlDeleteAll(db)
                p == PerformBackup(cleared, file, dirs # "none", w)
            IN  /\ p.result = "threw" => Events < MaxEvents
                /\ faults' = IF p.result = "threw" THEN faults + 1 ELSE faults
                /\ db' = cleared
                /\ lastLogId' = 0
                /\ file' = p.content
                /\ fileKnown' = KnownAfter(p, cleared, w)
                /\ out' = IF p.result = "threw"
                          THEN [Blank("clear-logs") EXCEPT !.status = "error",
                                   !.logs = {"Error clearing SQL database"}]
                          ELSE [Blank("clear-logs") EXCEPT !.status = "success",
                                   !.logs = {"SQL log cleared and persistent file updated."}]
    /\ UNCHANGED <<exports, dialogs, phase, timer, archives, dirs, issued,
                 known, launches, ticks, inserts, tickFailed, disturbed>>

\* The rows the export query returns, each an array [id, timestamp, status].
ExportQuery(d) ==
    [i \in 1..Len(OrderByIdAsc(d.rows)) |->
        LET r == OrderByIdAsc(d.rows)[i] IN <<r.id, r.timestamp, r.status>>]

\* ipcMain.handle('export-log-csv') up to the await of dialog.showSaveDialog:
\* the query; with rows to export a save dialog opens, and the call goes on
\* when it is answered. Nothing keeps the handler from being invoked again
\* meanwhile.
ExportLogCsv ==
    /\ WindowOpen
    /\ IF ~ScanThrows(db) /\ ExportQuery(db) # << >>
       THEN /\ Events < MaxEvents
            /\ exports' = exports + 1
            /\ dialogs' = dialogs (+) SetToBag({ExportQuery(db)})
            /\ out' = [Blank("export-log-csv") EXCEPT
                          !.rows = ExportQuery(db),
                          !.status = "save dialog open"]
       ELSE /\ UNCHANGED <<dialogs, exports>>
            /\ out' = IF db.state = "none"
                      THEN [Blank("export-log-csv") EXCEPT !.status = "Database not ready."]
                      ELSE IF ScanThrows(db)
                      THEN [Blank("export-log-csv") EXCEPT !.status = "rejected"]
                      ELSE [Blank("export-log-csv") EXCEPT !.status = "No logs to export."]
    /\ UNCHANGED <<faults, phase, db, lastLogId, timer, file, archives, dirs,
                 issued, known, fileKnown, launches, ticks, inserts, tickFailed, disturbed>>

\* The text of a CSV export, or a part of it: no database image.
CsvFile == GarbageFile

\* The rest of a call, from the answer of its save dialog: the rows of its
\* query are written as CSV to the chosen path, which can be that of the
\* persistent file or of an archive.
ExportLogCsvAnswered(rows, canceled, target, w) ==
    /\ phase \in {"ready", "quitting"}
    /\ BagIn(rows, dialogs)
    /\ dialogs' = dialogs (-) SetToBag({rows})
    /\ LET dirOk   == \/ target = "elsewhere"
                      \/ (target = "dbPath" /\ dirs # "none")
                      \/ (target \in Clock /\ dirs = "both")
           touched == ~canceled /\ dirOk /\ w.how # "eacces"
           content == IF w.how \in {"ok", "torn"} THEN CsvFile ELSE ZeroLengthFile
       IN  /\ file' = IF touched /\ target = "dbPath" THEN content ELSE file
           /\ fileKnown' = IF touched /\ target = "dbPath" THEN {} ELSE fileKnown
           /\ archives' = IF touched /\ target \in Clock
                          THEN [archives EXCEPT ![target] = content] ELSE archives
           /\ out' = [Blank("export-log-csv") EXCEPT
                         !.rows = IF ~canceled /\ dirOk /\ w.how = "ok" THEN rows ELSE << >>,
                         !.status = IF canceled THEN "Export canceled by user."
                                    ELSE IF dirOk /\ w.how = "ok" THEN "CSV exported successfully"
                                    ELSE "CSV Export failed"]
    /\ UNCHANGED <<faults, exports, phase, db, lastLogId, timer, dirs,
                 issued, known, launches, ticks, inserts, tickFailed, disturbed>>

--------------------------------------------------------------------------
(* The file system outside the program *)

\* network_backups is removed (with the archives in it).
RemoveBackups ==
    /\ dirs = "both"
    /\ dirs' = "userData"
    /\ archives' = [c \in Clock |-> AbsentFile]
    /\ disturbed' = TRUE
    /\ Events < MaxEvents
    /\ faults' = faults + 1
    /\ issued' = {}
    /\ out' = Blank("rm")
    /\ UNCHANGED <<exports, dialogs, phase, db, lastLogId, timer, file,
                 known, fileKnown, launches, ticks, inserts, tickFailed>>

\* The userData directory is removed (with network_log.db and network_backups).
RemoveUserData ==
    /\ dirs # "none"
    /\ dirs' = "none"
    /\ file' = AbsentFile
    /\ fileKnown' = {}
    /\ archives' = [c \in Clock |-> AbsentFile]
    /\ disturbed' = TRUE
    /\ Events < MaxEvents
    /\ faults' = faults + 1
    /\ issued' = {}
    /\ out' = Blank("rm")
    /\ UNCHANGED <<exports, dialogs, phase, db, lastLogId, timer,
                 known, launches, ticks, inserts, tickFailed>>

--------------------------------------------------------------------------

Next ==
    \/ Launch
    \/ \E sqlOk, mkdirOk \in BOOLEAN, r \in ReadOutcomes : Initialize(sqlOk, mkdirOk, r)
    \/ \E w \in WriteEnds(db) : BeforeQuit(w)
    \/ Exit
    \/ Crash
    \/ \E now \in Clock, w1, w2 \in WriteEnds(db), hasWindow \in BOOLEAN :
          \* a rejected run reaches neither the archive write nor the window,
          \* and makes no use of the time it has read
          /\ w1.how # "ok" => (w2 = OkWrite /\ hasWindow /\ now = "h1")
          \* a run whose archive write fails does not reach the window either
          /\ w2.how # "ok" => hasWindow
          /\ Tick(now, w1, w2, hasWindow)
    \/ LoadLogs
    \/ \E logEntry \in LogEntries : InsertLog(logEntry)
    \/ \E w \in WriteEnds(SqlDeleteAll(db)) : ClearLogs(w)
    \/ ExportLogCsv
    \/ \E rows \in BagToSet(dialogs), canceled \in BOOLEAN, target \in CsvTargets,
          w \in CsvWriteOutcomes :
          \* a canceled dialog chooses no path and reaches no write
          /\ canceled => (target = "elsewhere" /\ w = OkWrite)
          /\ ExportLogCsvAnswered(rows, canceled, target, w)
    \/ RemoveBackups
    \/ RemoveUserData

Spec == Init /\ [][Next]_vars

--------------------------------------------------------------------------
(* Claims *)

InsertSucceeded == out.op = "insert-log" /\ out.status = "success"

\* C1 as stated, for the runs made only of load, insert-log, clear-logs, hourly
\* routine, shutdown flush and reload, with every load reading the file that is
\* there (no kill of the process, no directory removed from outside): an insert
\* assigns an id greater than every id any earlier insert assigned.
C1_IdsNeverReused ==
    [][(InsertSucceeded' /\ ~disturbed) => \A i \in issued : out'.id > i]_vars

\* C1 amended: an insert assigns an id greater than the id of every entry in
\* the store and than every id assigned in the history its store descends from
\* (the inserts of this run, and those made before the snapshot it was loaded
\* from was saved by a write that completed), those removed by clear-logs
\* included.
C1_IdsIncreaseInLineage ==
    [][InsertSucceeded' =>
          /\ out'.id \notin known /\ \A i \in known : out'.id > i
          /\ \A r \in db.rows : out'.id > r.id]_vars

\* An insert into a store that had been emptied by clear-logs and reloaded in a
\* second run takes the id after the cleared one.
C1_Witness ==
    /\ InsertSucceeded
    /\ launches = 2 /\ inserts = 2
    /\ out.id = 2
    /\ db.rows # {} /\ Ids(db.rows) = {2}
    /\ known = {1, 2}

\* C2: once before-quit has run on an initialized database, the persistent
\* file holds the store, and loading it yields every entry inserted before the
\* request.
C2_ShutdownFlushSaves ==
    (out.op = "before-quit" /\ db.state = "ok") =>
        /\ file = Export(db)
        /\ ~LoadDatabase(file, "ok").threw
        /\ Entries(db.rows) \subseteq Entries(LoadDatabase(file, "ok").db.rows)

\* C3: after clear-logs on an initialized database, loading the persistent
\* file yields an empty store.
C3_ClearIsPersisted ==
    (out.op = "clear-logs" /\ db.state = "ok") =>
        \A r \in ReadOutcomes :
            /\ ~LoadDatabase(file, r).threw
            /\ LoadDatabase(file, r).db.rows = {}

\* C4: a load that cannot read or decode the file that is there (a read error,
\* an image that is no database) never ends in the ready state.
C4_UnreadableFileIsFatal ==
    (out.op = "initialize" /\ (out.status = "eio" \/ file.kind = "garbage")) =>
        phase # "ready"

\* C5: a run of the hourly routine that writes its archive writes a file that
\* did not exist, and leaves every archive file that exists as it is.
C5_ArchivesAreWriteOnce ==
    [][(out'.op = "tick" /\ out'.archive = "saved") =>
          /\ archives[out'.arch].kind = "absent"
          /\ \A c \in Clock : archives[c].kind # "absent" => archives'[c] = archives[c]]_vars

\* C6: a run of the hourly routine whose flush failed leaves the timer scheduled
\* and the process running, so the routine can run again; and a later run in
\* that process whose flush is written leaves the persistent file equal to the
\* store.
C6_SchedulerSurvivesFlushFailure ==
    /\ [][(out'.op = "tick" /\ out'.status = "rejected") =>
             (timer' /\ phase' = phase /\ db' = db)]_vars
    /\ []((out.op = "tick" /\ out.status = "rejected" /\ Events < MaxEvents) =>
             ENABLED (\E now \in Clock, w1, w2 \in WriteOutcomes, hasWindow \in BOOLEAN :
                         Tick(now, w1, w2, hasWindow)))
    /\ [][(tickFailed /\ out'.op = "tick" /\ out'.status = "saved") =>
             (file' = Export(db') /\ LoadDatabase(file', "ok").db.rows = db'.rows)]_vars

\* The routine has run again after a rejected run, and saved entries the
\* rejected run had not.
C6_Witness ==
    /\ out.op = "tick" /\ out.status = "saved"
    /\ tickFailed
    /\ file = Export(db) /\ db.rows # {}

\* C7: insert-log, successful or not, leaves the persistent file and every
\* archive file as they are.
C7_InsertDoesNotWrite ==
    [][out'.op = "insert-log" => (file' = file /\ archives' = archives)]_vars

\* An insert has succeeded and its entry is in memory only: the persistent
\* file, saved before it, lacks the entry.
C7_Witness ==
    /\ InsertSucceeded
    /\ file.kind = "image"
    /\ \E row \in db.rows : row.id = out.id /\ row \notin Stored(file)

\* C8: in every state of an initialized store, writing the store to the
\* persistent file and loading the file written yields the same store: the same
\* entries, the same answer of load-logs, the same counter, and an insert that
\* takes the same id; and a store just loaded from a file of pages encodes to
\* that file.
C8_RoundTrip ==
    /\ db.state = "ok" =>
          LET saved  == PerformBackup(db, file, TRUE, OkWrite)
              loaded == LoadDatabase(saved.content, "ok")
          IN  /\ saved.result = "saved"
              /\ ~loaded.threw
              /\ Entries(loaded.db.rows) = Entries(db.rows)
              /\ loaded.db = db
              /\ LoadLogsReply(loaded.db) = LoadLogsReply(db)
              /\ loaded.lastLogId = lastLogId
              /\ InsertThrows(loaded.db) = InsertThrows(db)
              /\ NextRowId(loaded.db) = NextRowId(db)
    /\ (out.op = "initialize" /\ out.status = "ok" /\ phase = "ready"
          /\ Len(file.pages) > 0) =>
          Export(db) = file

\* A second run has loaded the store the first run saved: entries on two leaf
\* pages, and a sequence ahead of them since an entry was cleared.
C8_Witness ==
    /\ out.op = "initialize" /\ out.status = "ok" /\ phase = "ready"
    /\ launches = 2
    /\ Ids(db.rows) = {2, 3} /\ lastLogId = 3 /\ db.seq = 3
    /\ Len(db.leaves) = 2
    /\ file = Export(db)

\* C9: a load that finds no persistent file ends in the ready state with an
\* empty store and the counter at 0.
C9_MissingFileLoadsEmpty ==
    (out.op = "initialize" /\ out.status = "ENOENT") =>
        /\ phase = "ready"
        /\ db = EmptyDb
        /\ lastLogId = 0
        /\ timer

\* A load has found no file.
C9_Witness ==
    /\ out.op = "initialize" /\ out.status = "ENOENT"
    /\ file.kind = "absent"
    /\ phase = "ready"

StrictlyDescending(ids) == \A i \in 1..(Len(ids) - 1) : ids[i] > ids[i + 1]

\* Every row of the store is as an insert made it.
Intact(d) ==
    \A c \in d.rows :
        /\ c.d = "ok" /\ c.id = c.key
        /\ \E p \in Payloads : c.timestamp = p.timestamp /\ c.status = p.status

--------------------------------------------------------------------------

\* C11 as stated: a successful insert assigns the entry the id lastLogId + 1,
\* lastLogId being the counter before the insert, and sets the counter to it.
C11_IdIsCounterPlusOne ==
    [][InsertSucceeded' =>
          /\ out'.id = lastLogId + 1
          /\ \E r \in db'.rows : r.id = lastLogId + 1 /\ db'.rows = db.rows \cup {r}
          /\ lastLogId' = lastLogId + 1]_vars

\* C11 amended: a successful insert adds one entry, whose id is one more than
\* the larger of the counter lastLogId and the value the table's row of
\* sqlite_sequence holds (0 when it has no row, or the file the store was
\* loaded from has lost it), and sets the counter to that id.
C11_IdFollowsTheSequence ==
    [][InsertSucceeded' =>
          LET last == IF db.seq > lastLogId THEN db.seq ELSE lastLogId
          IN  /\ out'.id = last + 1
              /\ \E r \in db'.rows : r.id = last + 1 /\ r \notin db.rows /\ db'.rows = db.rows \cup {r}
              /\ lastLogId' = last + 1]_vars

\* The first insert after a clear-logs, in the run that made the cleared
\* entry: the counter was 0 and the entry takes id 2.
C11_Witness ==
    /\ InsertSucceeded
    /\ launches = 1 /\ known = {1, 2}
    /\ Ids(db.rows) = {2}
    /\ out.id = 2 /\ lastLogId = 2

\* C12: once before-quit has been handled, no run of the hourly routine
\* starts: the routine does not write the persistent file or an archive
\* between the shutdown flush and the end of the process.
C12_NoTickAfterShutdownRequest ==
    [][phase = "quitting" =>
          ~(out'.op = "tick" /\ out'.status # "skipped")]_vars

\* C13: whenever a run of the hourly routine has sent backup-status or logged
\* the archive as created, the archive file named for the time of that run
\* exists and holds the snapshot of the store.
C13_StatusOnlyAfterArchive ==
    (out.op = "tick" /\
     (out.sent \/ "Archival backup created successfully" \in out.logs)) =>
        /\ out.arch \in Clock
        /\ archives[out.arch].kind = "image"
        /\ archives[out.arch] = Export(db)

\* C14: when before-quit has run on a database and the persistent file does
\* not hold the store, the failure has been logged, the save has not been
\* reported complete, and the process can exit.
C14_ShutdownFlushFailureIsSurfaced ==
    (out.op = "before-quit" /\ db.state # "none" /\ file # Export(db)) =>
        /\ "Final persistence save failed" \in out.logs
        /\ "Final save to persistent file complete before quit." \notin out.logs
        /\ ENABLED Exit

\* C15: a run of the hourly routine leaves the store as it is and writes the
\* persistent file before the archive: a run whose flush throws writes no
\* archive, and after a run whose two writes succeed the archive named for the
\* run and the persistent file hold the same snapshot, that of the store.
C15_FlushThenArchiveOfOneSnapshot ==
    [][out'.op = "tick" =>
          /\ db' = db /\ lastLogId' = lastLogId
          /\ out'.status = "rejected" => archives' = archives
          /\ (out'.status = "saved" /\ out'.archive = "saved") =>
                /\ file' = Export(db)
                /\ archives'[out'.arch] = file'
                /\ LoadDatabase(archives'[out'.arch], "ok").db.rows = db.rows]_vars

\* A run of the routine has written a non-empty store to both files.
C15_Witness ==
    /\ out.op = "tick" /\ out.status = "saved" /\ out.archive = "saved"
    /\ db.rows # {}
    /\ file = Export(db) /\ archives[out.arch] = file

\* C16: no run of the hourly routine ends by a rejection: a failure of the
\* flush or of the archive write is caught and logged by the routine, and a
\* failed archive write leaves the persistent file as the flush wrote it.
C16_TickCatchesItsFailures ==
    out.op = "tick" =>
        /\ out.status # "rejected"
        /\ out.archive = "threw" =>
              /\ "Auto Backup failed" \in out.logs
              /\ out.status = "saved" => file = Export(db)

\* C17: a clear-logs that returns a failure on an initialized database leaves
\* the store and the counter as they were before the call.
C17_FailedClearLeavesMemory ==
    [][(out'.op = "clear-logs" /\ out'.status = "error") =>
          (db' = db /\ lastLogId' = lastLogId)]_vars

\* C18: from the end of the load on, the counter lastLogId is the largest id
\* among the entries of the store, and 0 when the store is empty.
C18_CounterIsMaxId ==
    (phase \in {"ready", "quitting"} /\ db.state = "ok") =>
        /\ lastLogId = SetMax(Ids(db.rows))
        /\ db.rows = {} => lastLogId = 0
        /\ db.rows # {} => \E r \in db.rows : r.id = lastLogId

\* The handlers of main.js that test db before anything else.
GuardedOps == {"before-quit", "tick", "load-logs", "insert-log", "clear-logs",
               "export-log-csv"}

\* C19 as stated: until the load has completed, a handler that runs has no
\* effect: it leaves store, counter, persistent file and archives alone, logs
\* nothing, and returns an empty list, 'Database not ready.' or nothing.
C19_NothingBeforeLoadCompletes ==
    [][(phase \in {"starting", "aborting"} /\ out'.op \in GuardedOps) =>
          /\ db' = db /\ lastLogId' = lastLogId
          /\ file' = file /\ archives' = archives
          /\ out'.logs = {} /\ out'.rows = << >> /\ ~out'.sent
          /\ out'.status = IF out'.op \in {"before-quit", "tick"} THEN "skipped"
                           ELSE IF out'.op = "load-logs" THEN ""
                           ELSE "Database not ready."]_vars

\* C19 amended: while db is not set, neither the window nor the timer exists, and a
\* handler that runs has no effect: it leaves store, counter, persistent file
\* and archives alone, logs nothing, and returns an empty list (load-logs),
\* 'Database not ready.' (insert-log, clear-logs, export-log-csv) or nothing
\* (the hourly routine, before-quit); no step of the program writes the
\* persistent file or an archive before the load has set db.
C19_NothingBeforeLoad ==
    /\ [](db.state = "none" => (~timer /\ ~WindowOpen /\ lastLogId = 0))
    /\ [][(db.state = "none" /\ out'.op \in GuardedOps) =>
             /\ db' = db /\ lastLogId' = lastLogId
             /\ file' = file /\ archives' = archives
             /\ out'.logs = {} /\ out'.rows = << >> /\ ~out'.sent
             /\ out'.status = IF out'.op \in {"before-quit", "tick"} THEN "skipped"
                              ELSE IF out'.op = "load-logs" THEN ""
                              ELSE "Database not ready."]_vars
    /\ [][(db.state = "none" /\ out'.op # "rm") =>
             (file' = file /\ archives' = archives)]_vars

\* The application was quit while the load of a saved store had not set db:
\* before-quit did nothing and the file is as the first run saved it.
C19_Witness ==
    /\ out.op = "before-quit" /\ out.status = "skipped"
    /\ db.state = "none" /\ launches = 2
    /\ file.kind = "image" /\ Stored(file) # {}
====
